---- MODULE Spec2Model ----
(***************************************************************************)
(* canopeners: the CANopen frame codec (src/src/lib.rs, src/src/enums.rs)  *)
(* and the SDO client engine of Conn (sdo_write, sdo_read, send_sdo_acked) *)
(* as a state machine over a transport that delivers and accepts frames.   *)
(*                                                                         *)
(* A CAN frame is [ext, id, data]: ext is TRUE for a 29-bit identifier,    *)
(* data is a sequence of 0..8 bytes.  A Result<T, CanOpenError> is         *)
(* [kind |-> "Ok", val], [kind |-> "Err", err, code] or, where the code    *)
(* panics (unwrap, todo!(), slice index out of range), [kind |-> "Panic"]. *)
(***************************************************************************)
EXTENDS Integers, Sequences, FiniteSets, TLC

----------------------------------------------------------------------------
(* Bytes, bits and slices *)

Bit(b, k) == (b \div (2 ^ k)) % 2

\* a | b on 8-bit values
BitOr(a, b) ==
    LET f[k \in 0..8] ==
            IF k = 8 THEN 0
            ELSE (IF Bit(a, k) = 1 \/ Bit(b, k) = 1 THEN 2 ^ k ELSE 0) + f[k + 1]
    IN f[0]

\* v.to_le_bytes() on n bytes
to_le_bytes(v, n) == [i \in 1..n |-> (v \div (256 ^ (i - 1))) % 256]

\* uN::from_le_bytes(s)
from_le_bytes(s) ==
    LET f[k \in 0..Len(s)] ==
            IF k = Len(s) THEN 0 ELSE s[k + 1] * (256 ^ k) + f[k + 1]
    IN f[0]

\* the Rust slice s[a..b] (0-based, half open); the caller checks b <= Len(s)
Slice(s, a, b) == SubSeq(s, a + 1, b)

\* mutant: the buffer is not zeroed
Zeros_Stale(n) == [i \in 1..n |-> 170]

\* [0u8; n]
Zeros(n) == [i \in 1..n |-> 0]

\* dst[at..at+Len(src)].copy_from_slice(src)
CopyInto(dst, at, src) ==
    [i \in 1..Len(dst) |->
        IF i > at /\ i <= at + Len(src) THEN src[i - at] ELSE dst[i]]

\* b as u8
BoolU8(b) == IF b THEN 1 ELSE 0

Ok(v) == [kind |-> "Ok", val |-> v]
Err(e) == [kind |-> "Err", err |-> e, code |-> "None"]
ErrAbort(c) == [kind |-> "Err", err |-> "SdoAbortTransfer", code |-> c]
Panic == [kind |-> "Panic"]
\* the panic of an unreachable!() arm
Unreachable == [kind |-> "Panic", at |-> "unreachable!()"]

Frame(id, data) == [ext |-> FALSE, id |-> id, data |-> data]

----------------------------------------------------------------------------
(* enums.rs *)

AbortCodeTable ==
    << <<84082688, "ToggleBitNotAlternated">>,
       <<84148224, "SdoProtocolTimedOut">>,
       <<84148225, "InvalidClientServerCommandSpecifier">>,
       <<84148226, "InvalidBlockSize">>,
       <<84148227, "InvalidSequenceNumber">>,
       <<84148228, "CrcError">>,
       <<84148229, "OutOfMemory">>,
       <<100728832, "UnsupportedAccessToObject">>,
       <<100728833, "AttemptToReadWriteOnlyObject">>,
       <<100728834, "AttemptToWriteReadOnlyObject">>,
       <<100794368, "ObjectNotInDictionary">>,
       <<100925505, "ObjectCannotBeMappedToPdo">>,
       <<100925506, "ExceedPdoLength">>,
       <<100925507, "GeneralParameterIncompatibility">>,
       <<100925511, "GeneralInternalIncompatibility">>,
       <<101056512, "HardwareError">>,
       <<101122064, "DataTypeMismatchLengthMismatch">>,
       <<101122066, "DataTypeMismatchLengthTooHigh">>,
       <<101122067, "DataTypeMismatchLengthTooLow">>,
       <<101253137, "SubIndexDoesNotExist">>,
       <<101253168, "InvalidValueForParameter">>,
       <<101253169, "ValueTooHigh">>,
       <<101253170, "ValueTooLow">>,
       <<101253174, "MaxLessThanMin">>,
       <<101318691, "ResourceNotAvailable">>,
       <<134217728, "GeneralError">>,
       <<134217760, "DataTransferOrStorageFailed">>,
       <<134217761, "LocalControlPreventsDataTransfer">>,
       <<134217762, "DeviceStatePreventsDataTransfer">>,
       <<134217763, "ObjectDictionaryGenerationFailed">>,
       <<134217764, "NoDataAvailable">> >>

\* AbortCode::decode: Some(name) as the name, None as "None"
AbortCode_decode(code) ==
    IF \E i \in 1..Len(AbortCodeTable) : AbortCodeTable[i][1] = code
    THEN AbortCodeTable[CHOOSE i \in 1..Len(AbortCodeTable) :
                            AbortCodeTable[i][1] = code][2]
    ELSE "None"

AbortCode_encode(name) ==
    AbortCodeTable[CHOOSE i \in 1..Len(AbortCodeTable) :
                       AbortCodeTable[i][2] = name][1]

InRange(v, lo, hi) == lo <= v /\ v <= hi

\* EmergencyErrorCode::decode, the match arms in source order
EmergencyErrorCode_decode(code) ==
    CASE code = 33040 -> Ok("CommunicationCanOverrun")
      [] code = 33056 -> Ok("CommunicationErrorPassiveMode")
      [] code = 33072 -> Ok("CommunicationLifeGuardError")
      [] code = 33088 -> Ok("CommunicationRecoveredBusOff")
      [] code = 33104 -> Ok("CommunicationCanIdCollision")
      [] code = 33296 -> Ok("ProtocolErrorPdoLength")
      [] code = 33312 -> Ok("ProtocolErrorPdoLengthExceeded")
      [] code = 33328 -> Ok("ProtocolErrorDamMpdo")
      [] code = 33344 -> Ok("ProtocolErrorUnexpectedSyncLength")
      [] code = 33360 -> Ok("ProtocolErrorRpdoTimeout")
      [] InRange(code, 8448, 8703) -> Ok("CurrentInputSide")
      [] InRange(code, 8704, 8959) -> Ok("CurrentInsideDevice")
      [] InRange(code, 8960, 9215) -> Ok("CurrentOutputSide")
      [] InRange(code, 12544, 12799) -> Ok("MainsVoltage")
      [] InRange(code, 12800, 13055) -> Ok("VoltageInsideDevice")
      [] InRange(code, 13056, 13311) -> Ok("OutputVoltage")
      [] InRange(code, 16640, 16895) -> Ok("AmbientTemperature")
      [] InRange(code, 16896, 17151) -> Ok("DeviceTemperature")
      [] InRange(code, 24832, 25087) -> Ok("InternalSoftware")
      [] InRange(code, 25088, 25343) -> Ok("UserSoftware")
      [] InRange(code, 25344, 25599) -> Ok("DataSet")
      [] InRange(code, 33041, 33055) -> Ok("Communication")
      [] InRange(code, 33057, 33071) -> Ok("Communication")
      [] InRange(code, 33073, 33087) -> Ok("Communication")
      [] InRange(code, 33089, 33103) -> Ok("Communication")
      [] InRange(code, 33105, 33279) -> Ok("Communication")
      [] InRange(code, 33297, 33311) -> Ok("ProtocolError")
      [] InRange(code, 33313, 33327) -> Ok("ProtocolError")
      [] InRange(code, 33329, 33343) -> Ok("ProtocolError")
      [] InRange(code, 33345, 33359) -> Ok("ProtocolError")
      [] InRange(code, 33361, 33535) -> Ok("ProtocolError")
      [] InRange(code, 8192, 8447) -> Ok("Current")
      [] InRange(code, 12288, 12543) -> Ok("Voltage")
      [] InRange(code, 16384, 16639) -> Ok("Temperature")
      [] InRange(code, 20480, 20735) -> Ok("DeviceHardware")
      [] InRange(code, 24576, 24831) -> Ok("DeviceSoftware")
      [] InRange(code, 28672, 28927) -> Ok("AdditionalModules")
      [] InRange(code, 32768, 33023) -> Ok("Monitoring")
      [] InRange(code, 33280, 33295) -> Ok("ProtocolError")
      [] InRange(code, 36864, 37119) -> Ok("ExternalError")
      [] InRange(code, 61440, 61695) -> Ok("AdditionalFunctions")
      [] InRange(code, 65280, 65535) -> Ok("DeviceSpecific")
      [] InRange(code, 0, 255) -> Ok("ErrorResetOrNoError")
      [] InRange(code, 4096, 4351) -> Ok("GenericError")
      [] OTHER -> Err("ParseError")

\* EmergencyErrorCode::encode, the match arms in source order
EmergencyErrorCodeTable ==
    << <<"ErrorResetOrNoError", 0>>,
       <<"GenericError", 4096>>,
       <<"Current", 8192>>,
       <<"CurrentInputSide", 8448>>,
       <<"CurrentInsideDevice", 8704>>,
       <<"CurrentOutputSide", 8960>>,
       <<"Voltage", 12288>>,
       <<"MainsVoltage", 12544>>,
       <<"VoltageInsideDevice", 12800>>,
       <<"OutputVoltage", 13056>>,
       <<"Temperature", 16384>>,
       <<"AmbientTemperature", 16640>>,
       <<"DeviceTemperature", 16896>>,
       <<"DeviceHardware", 20480>>,
       <<"DeviceSoftware", 24576>>,
       <<"InternalSoftware", 24832>>,
       <<"UserSoftware", 25088>>,
       <<"DataSet", 25344>>,
       <<"AdditionalModules", 28672>>,
       <<"Monitoring", 32768>>,
       <<"Communication", 33024>>,
       <<"CommunicationCanOverrun", 33040>>,
       <<"CommunicationErrorPassiveMode", 33056>>,
       <<"CommunicationLifeGuardError", 33072>>,
       <<"CommunicationRecoveredBusOff", 33088>>,
       <<"CommunicationCanIdCollision", 33104>>,
       <<"ProtocolError", 33280>>,
       <<"ProtocolErrorPdoLength", 33296>>,
       <<"ProtocolErrorPdoLengthExceeded", 33312>>,
       <<"ProtocolErrorDamMpdo", 33328>>,
       <<"ProtocolErrorUnexpectedSyncLength", 33344>>,
       <<"ProtocolErrorRpdoTimeout", 33360>>,
       <<"ExternalError", 36864>>,
       <<"AdditionalFunctions", 61440>>,
       <<"DeviceSpecific", 65280>> >>

\* the symbols of enum EmergencyErrorCode
EmergencyErrorCodes ==
    {EmergencyErrorCodeTable[i][1] : i \in 1..Len(EmergencyErrorCodeTable)}

EmergencyErrorCode_encode(name) ==
    EmergencyErrorCodeTable[CHOOSE i \in 1..Len(EmergencyErrorCodeTable) :
                                EmergencyErrorCodeTable[i][1] = name][2]

EmergencyErrorRegisterNames ==
    << "GenericError", "Current", "Voltage", "Temperature",
       "CommunicationError", "DeviceProfileSpecific", "Reserved",
       "ManufacturerSpecific" >>

\* EmergencyErrorRegister::decode: the flags whose bit is set, low bit first
EmergencyErrorRegister_decode(code) ==
    LET f[k \in 0..8] ==
            IF k = 8 THEN <<>>
            ELSE (IF Bit(code, k) = 1
                  THEN <<EmergencyErrorRegisterNames[k + 1]>> ELSE <<>>)
                 \o f[k + 1]
    IN f[0]

----------------------------------------------------------------------------
(* lib.rs: identifiers and the per-type codecs *)

\* id_as_raw_std
id_as_raw_std(frame) ==
    IF ~frame.ext THEN Ok(frame.id) ELSE Err("CanVersion")

NmtFunctions == {1, 2, 128, 129, 130}

\* Nmt::decode: binrw reads function (repr u8) then target_node
Nmt_decode(frame) ==
    LET d == frame.data IN
    IF Len(d) < 1 \/ d[1] \notin NmtFunctions \/ Len(d) < 2
    THEN Err("ParseError")
    ELSE Ok([function |-> d[1], target_node |-> d[2]])

\* Sync::decode
Sync_decode(frame) ==
    LET idr == id_as_raw_std(frame) IN
    IF idr.kind # "Ok" THEN idr
    ELSE IF idr.val # 128 THEN Err("BadMessage")
    ELSE IF Len(frame.data) # 0 THEN Err("BadMessage")
    ELSE Ok([sync |-> TRUE])

\* Emergency::decode
Emergency_decode(frame) ==
    LET d == frame.data IN
    IF Len(d) < 8 THEN Err("ParseError")
    ELSE LET idr == id_as_raw_std(frame) IN
    IF idr.kind # "Ok" THEN idr
    ELSE LET ec == EmergencyErrorCode_decode(from_le_bytes(Slice(d, 0, 2))) IN
    IF ec.kind # "Ok" THEN Err("ParseError")
    ELSE Ok([node_id |-> (idr.val - 128) % 256,
             error_code |-> ec.val,
             error_register |-> EmergencyErrorRegister_decode(d[3]),
             vendor_specific |-> Slice(d, 3, 8)])

GuardStatuses == {0, 4, 5, 127}

\* Guard::decode: node_id is #[brw(ignore)], so the read leaves its default
Guard_decode(frame) ==
    LET d == frame.data IN
    IF Len(d) = 0 THEN Err("ParseError")
    ELSE LET idr == id_as_raw_std(frame) IN
    IF idr.kind # "Ok" THEN idr
    ELSE IF ~InRange(idr.val, 1792, 1919) THEN Err("BadMessage")
    ELSE IF (d[1] % 128) \notin GuardStatuses THEN Err("ParseError")
    ELSE Ok([node_id |-> 0, toggle |-> Bit(d[1], 7) # 0, status |-> d[1] % 128])

\* Guard::new
Guard_new(node_id, tgl, status) ==
    [node_id |-> node_id, toggle |-> tgl, status |-> status]

\* Guard::encode: u16_as_id unwraps StandardId::new
Guard_encode(guard) ==
    LET id == 1792 + guard.node_id IN
    IF id > 2047 THEN Panic
    ELSE Ok(Frame(id, <<BitOr(guard.status, BoolU8(guard.toggle) * 128)>>))

\* ReqRes::to_u16_sdo
ReqRes_to_u16_sdo(reqres) == IF reqres = "Req" THEN 1536 ELSE 1408

\* ReqRes::from_u16_sdo: id & 0x780 == 0x580
ReqRes_from_u16_sdo(id) ==
    IF (id \div 128) % 16 = 11 THEN "Res" ELSE "Req"

\* Pdo::decode
Pdo_decode(frame) ==
    LET idr == id_as_raw_std(frame) IN
    IF idr.kind # "Ok" THEN idr
    ELSE LET id == idr.val
             reqres == IF Bit(id, 7) = 0 THEN "Res" ELSE "Req"
             hi == (id \div 256) % 8
             dec == IF reqres = "Req" THEN 1 ELSE 0
         IN IF hi < dec THEN Panic
            ELSE Ok([pdo_index |-> hi - dec, reqres |-> reqres,
                     node_id |-> id % 128, data |-> frame.data])

\* Pdo::new
Pdo_new(node_id, pdo_index, data) ==
    IF Len(data) \notin 1..8 THEN Err("BadMessage")
    ELSE Ok([node_id |-> node_id, pdo_index |-> pdo_index, reqres |-> "Req",
             data |-> data])

\* Pdo::encode: the shift is on a u16, u16_as_id and set_data are unwrapped
Pdo_encode(pdo) ==
    LET id == ((pdo.pdo_index + (IF pdo.reqres = "Req" THEN 1 ELSE 0)) * 256) % 65536
        cob == pdo.node_id + id
    IN IF cob > 2047 \/ Len(pdo.data) > 8 THEN Panic
       ELSE Ok(Frame(cob, pdo.data))

----------------------------------------------------------------------------
(* lib.rs: the SDO frame codec.  An SdoCmd is a record tagged by variant;  *)
(* an SdoCmdInitiatePayload is [kind |-> "Expedited", data] or             *)
(* [kind |-> "Segmented", has_size, size] (Segmented(None) has size 0).    *)

Expedited(data) == [kind |-> "Expedited", data |-> data]
Segmented(has_size, size) ==
    [kind |-> "Segmented", has_size |-> has_size, size |-> size]

\* SdoCmdInitiatePayload::encode on the 8 bytes the caller has already set
SdoCmdInitiatePayload_encode(data, payload) ==
    IF Len(data) # 8 THEN Panic
    ELSE IF payload.kind = "Expedited"
    THEN LET n == Len(payload.data) IN
         IF n \notin 1..4 THEN Panic
         ELSE LET l == (CASE n = 1 -> 3 [] n = 2 -> 2 [] n = 3 -> 1 [] n = 4 -> 0) * 4
                  command_byte == BitOr(BitOr(data[1], l), 3)
              IN Ok(CopyInto([data EXCEPT ![1] = command_byte], 4, payload.data))
    ELSE IF payload.has_size
    THEN Ok(CopyInto([data EXCEPT ![1] = BitOr(data[1], 1)], 4,
                     to_le_bytes(payload.size, 4)))
    ELSE Ok([data EXCEPT ![1] = BitOr(data[1], 0)])

\* mutant: the size-indicated bit is ignored and 4 bytes are always taken
SdoCmdInitiatePayload_decode_AlwaysFour(frame) ==
    LET d == frame.data IN
    IF Len(d) < 1 THEN Panic
    ELSE LET size_indicated == Bit(d[1], 0) # 0
             expedited == Bit(d[1], 1) # 0
         IN IF expedited
            THEN IF Len(d) < 8 THEN Panic
                 ELSE Ok(Expedited(Slice(d, 4, 8)))
            ELSE IF size_indicated
                 THEN IF Len(d) < 8 THEN Panic
                      ELSE Ok(Segmented(TRUE, from_le_bytes(Slice(d, 4, 8))))
                 ELSE Ok(Segmented(FALSE, 0))

\* SdoCmdInitiatePayload::decode
SdoCmdInitiatePayload_decode(frame) ==
    LET d == frame.data IN
    IF Len(d) < 1 THEN Panic
    ELSE LET size_indicated == Bit(d[1], 0) # 0
             expedited == Bit(d[1], 1) # 0
         IN IF expedited
            THEN LET l == IF size_indicated THEN 4 - ((d[1] \div 4) % 4) ELSE 4 IN
                 IF Len(d) < 4 + l THEN Panic
                 ELSE Ok(Expedited(Slice(d, 4, 4 + l)))
            ELSE IF size_indicated
                 THEN IF Len(d) < 8 THEN Panic
                      ELSE Ok(Segmented(TRUE, from_le_bytes(Slice(d, 4, 8))))
                 ELSE Ok(Segmented(FALSE, 0))

\* the [command_byte, index lo, index hi, sub_index, 0, 0, 0, 0] header
IndexHeader(command_byte, index, sub_index) ==
    [CopyInto([Zeros(8) EXCEPT ![1] = command_byte], 1, to_le_bytes(index, 2))
        EXCEPT ![4] = sub_index]

\* SdoCmdInitiateDownloadRx::encode
SdoCmdInitiateDownloadRx_encode(cmd) ==
    SdoCmdInitiatePayload_encode(IndexHeader(32, cmd.index, cmd.sub_index), cmd.payload)

\* SdoCmdInitiateDownloadRx::decode
SdoCmdInitiateDownloadRx_decode(frame) ==
    LET d == frame.data IN
    IF Len(d) < 4 THEN Panic
    ELSE LET p == SdoCmdInitiatePayload_decode(frame) IN
         IF p.kind # "Ok" THEN p
         ELSE Ok([variant |-> "InitiateDownloadRx",
                  index |-> from_le_bytes(Slice(d, 1, 3)),
                  sub_index |-> d[4], payload |-> p.val])

\* SdoCmdInitiateDownloadTx::encode
SdoCmdInitiateDownloadTx_encode(cmd) == Ok(IndexHeader(96, cmd.index, cmd.sub_index))

\* SdoCmdInitiateDownloadTx::decode
SdoCmdInitiateDownloadTx_decode(frame) ==
    LET d == frame.data IN
    IF Len(d) < 4 THEN Panic
    ELSE Ok([variant |-> "InitiateDownloadTx",
             index |-> from_le_bytes(Slice(d, 1, 3)), sub_index |-> d[4]])

\* the shared body of SdoCmdDownloadSegmentRx::encode and
\* SdoCmdUploadSegmentTx::encode; 7 - len is computed in u8
SegmentEncode(cmd) ==
    LET n == Len(cmd.data) IN
    IF n > 7 THEN Panic
    ELSE Ok(CopyInto([Zeros(8) EXCEPT ![1] =
                        BitOr(BitOr(BoolU8(cmd.toggle) * 16, (7 - n) * 2),
                              BoolU8(cmd.last))], 1, cmd.data))

\* the shared body of SdoCmdDownloadSegmentRx::decode and
\* SdoCmdUploadSegmentTx::decode
SegmentDecode(frame, variant) ==
    LET d == frame.data IN
    IF Len(d) < 1 THEN Panic
    ELSE LET command_byte == d[1]
             size == 7 - ((command_byte \div 2) % 8)
         IN IF Len(d) < 1 + size THEN Panic
            ELSE Ok([variant |-> variant,
                     toggle |-> Bit(command_byte, 4) # 0,
                     last |-> Bit(command_byte, 0) # 0,
                     data |-> Slice(d, 1, 1 + size)])

SdoCmdDownloadSegmentRx_encode(cmd) == SegmentEncode(cmd)

SdoCmdDownloadSegmentRx_decode(frame) == SegmentDecode(frame, "DownloadSegmentRx")

SdoCmdUploadSegmentTx_encode(cmd) == SegmentEncode(cmd)

SdoCmdUploadSegmentTx_decode(frame) == SegmentDecode(frame, "UploadSegmentTx")

\* SdoCmdDownloadSegmentTx::encode
SdoCmdDownloadSegmentTx_encode(cmd) ==
    Ok([Zeros(8) EXCEPT ![1] = BitOr(32, BoolU8(cmd.toggle) * 16)])

\* the shared body of SdoCmdDownloadSegmentTx::decode and
\* SdoCmdUploadSegmentRx::decode
ToggleDecode(frame, variant) ==
    LET d == frame.data IN
    IF Len(d) < 1 THEN Panic
    ELSE Ok([variant |-> variant, toggle |-> Bit(d[1], 4) # 0])

SdoCmdDownloadSegmentTx_decode(frame) == ToggleDecode(frame, "DownloadSegmentTx")

\* SdoCmdInitiateUploadRx::encode
SdoCmdInitiateUploadRx_encode(cmd) == Ok(IndexHeader(64, cmd.index, cmd.sub_index))

\* SdoCmdInitiateUploadRx::decode
SdoCmdInitiateUploadRx_decode(frame) ==
    LET d == frame.data IN
    IF Len(d) < 4 THEN Panic
    ELSE Ok([variant |-> "InitiateUploadRx",
             index |-> from_le_bytes(Slice(d, 1, 3)), sub_index |-> d[4]])

\* SdoCmdInitiateUploadTx::encode
SdoCmdInitiateUploadTx_encode(cmd) ==
    SdoCmdInitiatePayload_encode(IndexHeader(64, cmd.index, cmd.sub_index), cmd.payload)

\* SdoCmdInitiateUploadTx::decode
SdoCmdInitiateUploadTx_decode(frame) ==
    LET d == frame.data IN
    IF Len(d) < 4 THEN Panic
    ELSE LET p == SdoCmdInitiatePayload_decode(frame) IN
         IF p.kind # "Ok" THEN p
         ELSE Ok([variant |-> "InitiateUploadTx",
                  index |-> from_le_bytes(Slice(d, 1, 3)),
                  sub_index |-> d[4], payload |-> p.val])

\* SdoCmdUploadSegmentRx::encode
SdoCmdUploadSegmentRx_encode(cmd) ==
    Ok([Zeros(8) EXCEPT ![1] = BitOr(96, BoolU8(cmd.toggle) * 16)])

SdoCmdUploadSegmentRx_decode(frame) == ToggleDecode(frame, "UploadSegmentRx")

\* SdoCmdAbortTransfer::encode
SdoCmdAbortTransfer_encode(cmd) ==
    Ok(CopyInto(IndexHeader(128, cmd.index, cmd.sub_index), 4,
                to_le_bytes(AbortCode_encode(cmd.abort_code), 4)))

\* mutant: the abort code is read one byte too early
SdoCmdAbortTransfer_decode_WrongOffset(frame) ==
    LET d == frame.data IN
    IF Len(d) < 8 THEN Panic
    ELSE LET abort_code == AbortCode_decode(from_le_bytes(Slice(d, 3, 7))) IN
         IF abort_code = "None" THEN Err("ParseError")
         ELSE Ok([variant |-> "AbortTransfer",
                  index |-> from_le_bytes(Slice(d, 1, 3)),
                  sub_index |-> d[4], abort_code |-> abort_code])

\* SdoCmdAbortTransfer::decode
SdoCmdAbortTransfer_decode(frame) ==
    LET d == frame.data IN
    IF Len(d) < 8 THEN Panic
    ELSE LET abort_code == AbortCode_decode(from_le_bytes(Slice(d, 4, 8))) IN
         IF abort_code = "None" THEN Err("ParseError")
         ELSE Ok([variant |-> "AbortTransfer",
                  index |-> from_le_bytes(Slice(d, 1, 3)),
                  sub_index |-> d[4], abort_code |-> abort_code])

\* mutant: a response's command specifier is read with the request's table
SdoCmdSpec_from_byte_RequestTable(byte, reqres) ==
    LET cs == byte \div 32 IN
    CASE cs = 0 -> Ok("DownloadSegment")
      [] cs = 1 -> Ok("InitiateDownload")
      [] cs = 2 -> Ok("InitiateUpload")
      [] cs = 3 -> Ok("UploadSegment")
      [] cs = 4 -> Ok("AbortTransfer")
      [] cs = 5 -> Ok("BlockUpload")
      [] cs = 6 -> Ok("BlockDownload")
      [] OTHER -> Err("ParseError")

\* mutant: a response's 0 and 1 are read in the request's order
SdoCmdSpec_from_byte_ResSwapped(byte, reqres) ==
    LET cs == byte \div 32 IN
    CASE reqres = "Req" /\ cs = 0 -> Ok("DownloadSegment")
      [] reqres = "Req" /\ cs = 1 -> Ok("InitiateDownload")
      [] reqres = "Req" /\ cs = 2 -> Ok("InitiateUpload")
      [] reqres = "Req" /\ cs = 3 -> Ok("UploadSegment")
      [] reqres = "Res" /\ cs = 0 -> Ok("DownloadSegment")
      [] reqres = "Res" /\ cs = 1 -> Ok("UploadSegment")
      [] reqres = "Res" /\ cs = 2 -> Ok("InitiateUpload")
      [] reqres = "Res" /\ cs = 3 -> Ok("InitiateDownload")
      [] cs = 4 -> Ok("AbortTransfer")
      [] cs = 5 -> Ok("BlockUpload")
      [] cs = 6 -> Ok("BlockDownload")
      [] OTHER -> Err("ParseError")

\* SdoCmdSpec::from_byte
SdoCmdSpec_from_byte(byte, reqres) ==
    LET cs == byte \div 32 IN
    CASE reqres = "Req" /\ cs = 0 -> Ok("DownloadSegment")
      [] reqres = "Req" /\ cs = 1 -> Ok("InitiateDownload")
      [] reqres = "Req" /\ cs = 2 -> Ok("InitiateUpload")
      [] reqres = "Req" /\ cs = 3 -> Ok("UploadSegment")
      [] reqres = "Res" /\ cs = 0 -> Ok("UploadSegment")
      [] reqres = "Res" /\ cs = 1 -> Ok("DownloadSegment")
      [] reqres = "Res" /\ cs = 2 -> Ok("InitiateUpload")
      [] reqres = "Res" /\ cs = 3 -> Ok("InitiateDownload")
      [] cs = 4 -> Ok("AbortTransfer")
      [] cs = 5 -> Ok("BlockUpload")
      [] cs = 6 -> Ok("BlockDownload")
      [] OTHER -> Err("ParseError")

\* Sdo::decode
Sdo_decode(frame) ==
    LET idr == id_as_raw_std(frame) IN
    IF idr.kind # "Ok" THEN idr
    ELSE LET id == idr.val IN
    IF ~InRange(id, 1408, 1535) /\ ~InRange(id, 1536, 1663) THEN Err("BadMessage")
    ELSE IF Len(frame.data) < 1 THEN Panic
    ELSE LET node_id == id % 128
             reqres == ReqRes_from_u16_sdo(id)
             command_spec == SdoCmdSpec_from_byte(frame.data[1], reqres)
         IN
    IF command_spec.kind # "Ok" THEN command_spec
    ELSE LET cs == command_spec.val
             command ==
               CASE reqres = "Req" /\ cs = "InitiateDownload" ->
                        SdoCmdInitiateDownloadRx_decode(frame)
                 [] reqres = "Req" /\ cs = "DownloadSegment" ->
                        SdoCmdDownloadSegmentRx_decode(frame)
                 [] reqres = "Res" /\ cs = "InitiateDownload" ->
                        SdoCmdInitiateDownloadTx_decode(frame)
                 [] reqres = "Res" /\ cs = "DownloadSegment" ->
                        SdoCmdDownloadSegmentTx_decode(frame)
                 [] reqres = "Req" /\ cs = "InitiateUpload" ->
                        SdoCmdInitiateUploadRx_decode(frame)
                 [] reqres = "Req" /\ cs = "UploadSegment" ->
                        SdoCmdUploadSegmentRx_decode(frame)
                 [] reqres = "Res" /\ cs = "InitiateUpload" ->
                        SdoCmdInitiateUploadTx_decode(frame)
                 [] reqres = "Res" /\ cs = "UploadSegment" ->
                        SdoCmdUploadSegmentTx_decode(frame)
                 [] cs = "AbortTransfer" -> SdoCmdAbortTransfer_decode(frame)
                 [] OTHER -> Err("NotYetImplemented")
         IN IF command.kind # "Ok" THEN command
            ELSE Ok([node_id |-> node_id, command |-> command.val, reqres |-> reqres])

\* Sdo::encode: the frame, or Panic where an unwrap or todo!() fails
Sdo_encode(sdo) ==
    LET id == sdo.node_id + ReqRes_to_u16_sdo(sdo.reqres)
        v == sdo.command.variant
        data ==
          CASE v = "InitiateUploadRx" -> SdoCmdInitiateUploadRx_encode(sdo.command)
            [] v = "InitiateDownloadRx" -> SdoCmdInitiateDownloadRx_encode(sdo.command)
            [] v = "UploadSegmentRx" -> SdoCmdUploadSegmentRx_encode(sdo.command)
            [] v = "DownloadSegmentRx" -> SdoCmdDownloadSegmentRx_encode(sdo.command)
            [] v = "InitiateUploadTx" -> SdoCmdInitiateUploadTx_encode(sdo.command)
            [] v = "InitiateDownloadTx" -> SdoCmdInitiateDownloadTx_encode(sdo.command)
            [] v = "UploadSegmentTx" -> SdoCmdUploadSegmentTx_encode(sdo.command)
            [] v = "DownloadSegmentTx" -> SdoCmdDownloadSegmentTx_encode(sdo.command)
            [] v = "AbortTransfer" -> SdoCmdAbortTransfer_encode(sdo.command)
            [] OTHER -> Panic
    IN IF id > 2047 \/ data.kind # "Ok" THEN Panic
       ELSE Ok(Frame(id, data.val))

\* mutant: the block-transfer pairs, which nothing sends yet, are left out
is_response_to_NoBlockPairs(a, b) ==
    \/ a.variant = "DownloadSegmentRx" /\ b.variant = "DownloadSegmentTx"
    \/ a.variant = "InitiateDownloadRx" /\ b.variant = "InitiateDownloadTx"
    \/ a.variant = "InitiateUploadRx" /\ b.variant = "InitiateUploadTx"
    \/ a.variant = "UploadSegmentRx" /\ b.variant = "UploadSegmentTx"

\* mutant: any response variant answers any request variant
is_response_to_AnyResponse(a, b) ==
    /\ a.variant \in {"DownloadSegmentRx", "InitiateDownloadRx", "InitiateUploadRx",
                      "UploadSegmentRx", "BlockUploadRx", "BlockDownloadRx"}
    /\ b.variant \in {"DownloadSegmentTx", "InitiateDownloadTx", "InitiateUploadTx",
                      "UploadSegmentTx", "BlockUploadTx", "BlockDownloadTx"}

\* SdoCmd::is_response_to
is_response_to(a, b) ==
    \/ a.variant = "DownloadSegmentRx" /\ b.variant = "DownloadSegmentTx"
    \/ a.variant = "InitiateDownloadRx" /\ b.variant = "InitiateDownloadTx"
    \/ a.variant = "InitiateUploadRx" /\ b.variant = "InitiateUploadTx"
    \/ a.variant = "UploadSegmentRx" /\ b.variant = "UploadSegmentTx"
    \/ a.variant = "BlockUploadRx" /\ b.variant = "BlockUploadTx"
    \/ a.variant = "BlockDownloadRx" /\ b.variant = "BlockDownloadTx"

\* mutant: the PDO arm matches the COB-ID where the code matches protocol_id
Conn_decode_PdoArmOnCobId(frame) ==
    LET idr == id_as_raw_std(frame) IN
    IF idr.kind # "Ok" THEN Panic
    ELSE LET id == idr.val
             protocol_id == id - (id % 128)
             node_id == id % 128
             Wrap(type, r) ==
                IF r.kind = "Ok" THEN Ok([type |-> type, body |-> r.val]) ELSE r
         IN CASE protocol_id = 0 -> Wrap("Nmt", Nmt_decode(frame))
              [] protocol_id = 128 /\ node_id = 0 -> Wrap("Sync", Sync_decode(frame))
              [] protocol_id = 128 /\ node_id # 0 ->
                     Wrap("Emergency", Emergency_decode(frame))
              [] InRange(id, 384, 1280) -> Wrap("Pdo", Pdo_decode(frame))
              [] InRange(protocol_id, 1408, 1536) -> Wrap("Sdo", Sdo_decode(frame))
              [] protocol_id = 1792 -> Wrap("Guard", Guard_decode(frame))
              [] OTHER -> Panic

\* Conn::decode: a Message is [type, body]
Conn_decode(frame) ==
    LET idr == id_as_raw_std(frame) IN
    IF idr.kind # "Ok" THEN Panic
    ELSE LET id == idr.val
             protocol_id == id - (id % 128)
             node_id == id % 128
             Wrap(type, r) ==
                IF r.kind = "Ok" THEN Ok([type |-> type, body |-> r.val]) ELSE r
         IN CASE protocol_id = 0 -> Wrap("Nmt", Nmt_decode(frame))
              [] protocol_id = 128 /\ node_id = 0 -> Wrap("Sync", Sync_decode(frame))
              [] protocol_id = 128 /\ node_id # 0 ->
                     Wrap("Emergency", Emergency_decode(frame))
              [] InRange(protocol_id, 384, 1280) -> Wrap("Pdo", Pdo_decode(frame))
              [] InRange(protocol_id, 1408, 1536) -> Wrap("Sdo", Sdo_decode(frame))
              [] protocol_id = 1792 -> Wrap("Guard", Guard_decode(frame))
              [] OTHER -> Panic

\* mutant: a response is an acknowledgement only if it names the request's object
is_sdo_ack_ComparesIndex(message, command, node_id) ==
    IF message.type = "Sdo" /\ message.body.node_id = node_id
    THEN IF message.body.command.variant = "AbortTransfer"
         THEN ErrAbort(message.body.command.abort_code)
         ELSE IF /\ is_response_to(command, message.body.command)
                 /\ ("index" \in DOMAIN command
                        /\ "index" \in DOMAIN message.body.command)
                      => (command.index = message.body.command.index
                          /\ command.sub_index = message.body.command.sub_index)
              THEN Ok(TRUE)
              ELSE Ok(FALSE)
    ELSE Ok(FALSE)

\* Conn::is_sdo_ack
is_sdo_ack(message, command, node_id) ==
    IF message.type = "Sdo" /\ message.body.node_id = node_id
    THEN IF message.body.command.variant = "AbortTransfer"
         THEN ErrAbort(message.body.command.abort_code)
         ELSE IF is_response_to(command, message.body.command)
              THEN Ok(TRUE)
              ELSE Ok(FALSE)
    ELSE Ok(FALSE)

----------------------------------------------------------------------------
(* The inputs of the model: the calls the application makes and the frames *)
(* the transport can deliver.                                              *)

MaxDataLen == 15
MaxReadSegs == 2

Nodes == {16, 127}
Objects == {<<4096, 1>>, <<8193, 2>>}

\* the bytes 17, 34, ..., 255, 16, ...
DataOf(n) == [i \in 1..n |-> (i * 17) % 256]
WriteData == {DataOf(n) : n \in 0..MaxDataLen}

\* the lengths of slices longer than u32::MAX: 2^32, 2^32 + 1, 2^48 and
\* usize::MAX; of such a slice the model holds the first MaxDataLen bytes
HugeLens ==
    { <<0, 0, 1, 0>>, <<1, 0, 1, 0>>, <<0, 0, 0, 1>>,
      <<65535, 65535, 65535, 65535>> }

SdoRes(node, command) == [node_id |-> node, reqres |-> "Res", command |-> command]
SdoReq(node, command) == [node_id |-> node, reqres |-> "Req", command |-> command]

UploadSeg(toggle, data, last) ==
    [variant |-> "UploadSegmentTx", toggle |-> toggle, data |-> data, last |-> last]

\* what a server, or another client, may put on the bus as well-formed SDOs
ServerSdos ==
    UNION {
      {SdoRes(n, [variant |-> "InitiateDownloadTx", index |-> o[1], sub_index |-> o[2]])
          : o \in Objects}
      \cup {SdoRes(n, [variant |-> "DownloadSegmentTx", toggle |-> t]) : t \in BOOLEAN}
      \cup {SdoRes(n, [variant |-> "InitiateUploadTx", index |-> 4096, sub_index |-> 1,
                       payload |-> p])
              : p \in {Expedited(<<7>>), Expedited(<<1, 2, 3, 200>>),
                       Segmented(FALSE, 0), Segmented(TRUE, 10)}}
      \cup {SdoRes(n, c)
              : c \in {UploadSeg(FALSE, <<10, 9, 8, 7, 6, 5, 4>>, FALSE),
                       UploadSeg(TRUE, <<10, 9, 8, 7, 6, 5, 4>>, FALSE),
                       UploadSeg(TRUE, <<3, 2, 1>>, TRUE),
                       UploadSeg(FALSE, <<3, 2, 1>>, TRUE),
                       UploadSeg(FALSE, <<>>, TRUE)}}
      \cup {SdoRes(n, [variant |-> "AbortTransfer", index |-> 4096, sub_index |-> 1,
                       abort_code |-> c])
              : c \in {"ToggleBitNotAlternated", "NoDataAvailable"}}
      \cup {SdoReq(n, [variant |-> "AbortTransfer", index |-> 4096, sub_index |-> 1,
                       abort_code |-> "GeneralError"]),
            SdoReq(n, [variant |-> "InitiateUploadRx", index |-> 4096, sub_index |-> 1])}
      : n \in Nodes }

\* frames that are no well-formed SDO
OtherFrames ==
    { Frame(0, <<1, 10>>),                          \* NMT EnterOperational
      Frame(0, <<3, 10>>),                          \* NMT, unknown function
      Frame(128, <<>>),                             \* SYNC
      Frame(138, <<0, 65, 8, 1, 2, 0, 0, 0>>),      \* EMCY
      Frame(522, <<3, 4, 0>>),                      \* PDO
      Frame(1802, <<5>>),                           \* Guard
      Frame(256, <<>>),                             \* COB-ID outside every range
      [ext |-> TRUE, id |-> 1424, data |-> <<96, 0, 16, 1, 0, 0, 0, 0>>] }
    \cup UNION {
      { Frame(1408 + n, <<128, 0, 16, 1, 1, 0, 0, 0>>),   \* abort, unknown code
        Frame(1408 + n, <<96>>),                       \* truncated response
        Frame(1408 + n, <<160, 0, 0, 0, 0, 0, 0, 0>>), \* block upload
        Frame(1408 + n, <<224, 0, 0, 0, 0, 0, 0, 0>>) }
      : n \in Nodes }

RxFrames == {Sdo_encode(m).val : m \in ServerSdos} \cup OtherFrames

NoFrame == [ext |-> FALSE, id |-> 0 - 1, data |-> <<>>]
NoMessage == [node_id |-> 0, reqres |-> "Req", command |-> [variant |-> "None"]]
NoResult == [kind |-> "None"]

----------------------------------------------------------------------------
(* The SDO client engine.                                                  *)
(*   pc       where the calling thread is: "idle" (no call in progress),   *)
(*            "send" (in send_sdo_acked, before Conn::send), "wait" (in    *)
(*            its receive loop), "panic" (the thread has panicked)         *)
(*   call     the operation in progress or last made and its arguments     *)
(*   stage    which send_sdo_acked call of the operation is running        *)
(*   message  the request being acknowledged                               *)
(*   toggle, idx_seg_start, buffer   the locals of sdo_write and sdo_read  *)
(*   result   what the last call returned                                  *)
(*   sent     the frames the transport accepted during the call            *)
(*   acked    the frames send_sdo_acked returned as acknowledgements       *)
(*   lastRx   the frame on which the receive loop last ended during the    *)
(*            call: an acknowledgement, an error or a panic                *)
(*   clean    no frame delivered during the call was discarded             *)
(*   ioFailed the transport failed a write_frame or read_frame of the call *)
(*   aborted  an earlier call on the connection ended in SdoAbortTransfer  *)

VARIABLES pc, call, stage, message, toggle, idx_seg_start, buffer,
          result, sent, acked, lastRx, clean, ioFailed, aborted

vars == <<pc, call, stage, message, toggle, idx_seg_start, buffer,
          result, sent, acked, lastRx, clean, ioFailed, aborted>>

\* a usize as four 16-bit limbs, least significant first
usize(n) == <<n % 65536, n \div 65536, 0, 0>>

\* mutant: the length is cast with `as u32`, which truncates
u32_try_from_Truncates(n) == Ok(n[1] + 65536 * n[2])

\* u32::try_from(usize), its TryFromIntError mapped to OverflowError
u32_try_from(n) ==
    IF n[3] = 0 /\ n[4] = 0 THEN Ok(n[1] + 65536 * n[2]) ELSE Err("OverflowError")

NoCall ==
    [op |-> "none", node_id |-> 0, index |-> 0, sub_index |-> 0, data |-> <<>>,
     len |-> usize(0)]

Init ==
    /\ pc = "idle"
    /\ call = NoCall
    /\ stage = "none"
    /\ message = NoMessage
    /\ toggle = FALSE
    /\ idx_seg_start = 0
    /\ buffer = <<>>
    /\ result = NoResult
    /\ sent = <<>>
    /\ acked = <<>>
    /\ lastRx = NoFrame
    /\ clean = TRUE
    /\ ioFailed = FALSE
    /\ aborted = FALSE

Min(a, b) == IF a < b THEN a ELSE b

\* the caller takes the Result of the call that returned
take_result ==
    /\ pc = "idle"
    /\ result # NoResult
    /\ result' = NoResult
    /\ call' = NoCall
    /\ sent' = <<>>
    /\ acked' = <<>>
    /\ lastRx' = NoFrame
    /\ clean' = TRUE
    /\ ioFailed' = FALSE
    /\ UNCHANGED <<pc, stage, message, toggle, idx_seg_start, buffer, aborted>>

\* sdo_write, 1..=4 arm: the expedited InitiateDownload request
ExpeditedWriteMessage(node, index, sub_index, data) ==
    SdoReq(node, [variant |-> "InitiateDownloadRx", index |-> index,
                  sub_index |-> sub_index, payload |-> Expedited(data)])

\* sdo_write, n arm: the segmented InitiateDownload request
SegmentedWriteMessage(node, index, sub_index, size) ==
    SdoReq(node, [variant |-> "InitiateDownloadRx", index |-> index,
                  sub_index |-> sub_index, payload |-> Segmented(TRUE, size)])

\* mutant: last is computed with > where the code has >=
DownloadSegmentMessage_LastOffByOne(node, data, start, tgl) ==
    LET n == Len(data)
        idx_seg_end == Min(start + 7, n)
        last == start + 7 > n
    IN SdoReq(node, [variant |-> "DownloadSegmentRx", toggle |-> tgl,
                     data |-> Slice(data, start, idx_seg_end), last |-> last])

\* sdo_write, loop body: the DownloadSegment request for the chunk at start
DownloadSegmentMessage(node, data, start, tgl) ==
    LET n == Len(data)
        idx_seg_end == Min(start + 7, n)
        last == start + 7 >= n
    IN SdoReq(node, [variant |-> "DownloadSegmentRx", toggle |-> tgl,
                     data |-> Slice(data, start, idx_seg_end), last |-> last])

\* sdo_read: the InitiateUpload request
InitiateUploadMessage(node, index, sub_index) ==
    SdoReq(node, [variant |-> "InitiateUploadRx", index |-> index,
                  sub_index |-> sub_index])

\* mutant: the request carries the toggle after the flip
UploadSegmentMessage_ToggleInverted(node, tgl) ==
    SdoReq(node, [variant |-> "UploadSegmentRx", toggle |-> ~tgl])

\* sdo_read, loop body: the UploadSegment request
UploadSegmentMessage(node, tgl) ==
    SdoReq(node, [variant |-> "UploadSegmentRx", toggle |-> tgl])

\* mutant: the toggle is kept from the transfer before
FirstToggle_Kept(old) == old

\* the toggle a transfer starts with
FirstToggle(old) == FALSE

\* mutant: the toggle is never flipped
FlipToggle_Stuck(tgl) == tgl

\* toggle = !toggle
FlipToggle(tgl) == ~tgl

\* the call starts
StartCall(c) ==
    /\ pc = "idle"
    /\ result = NoResult
    /\ call' = c
    /\ UNCHANGED <<sent, acked, lastRx, clean, ioFailed>>

\* the call returns r and its locals are dropped; toggle keeps its last
\* value so that a transfer that failed to set it afresh would show
Return(r) ==
    /\ pc' = "idle"
    /\ result' = r
    /\ aborted' = (aborted \/ (r.kind = "Err" /\ r.err = "SdoAbortTransfer"))
    /\ stage' = "none"
    /\ message' = NoMessage
    /\ idx_seg_start' = 0
    /\ buffer' = <<>>
    /\ UNCHANGED toggle

\* the thread panics with p
AbortWith(p) ==
    /\ pc' = "panic"
    /\ result' = p
    /\ UNCHANGED <<aborted, stage, message, toggle, idx_seg_start, buffer>>

\* send_sdo_acked is entered with request m, the locals being tgl, start, buf
Request(m, st, tgl, start, buf) ==
    /\ pc' = "send"
    /\ message' = m
    /\ stage' = st
    /\ toggle' = tgl
    /\ idx_seg_start' = start
    /\ buffer' = buf
    /\ UNCHANGED <<result, aborted>>

\* mutant: the expedited arm is 1..4 (exclusive) where the code has 1..=4
sdo_write_ExclusiveRange(node, index, sub_index, data, len) ==
    /\ StartCall([op |-> "write", node_id |-> node, index |-> index,
                  sub_index |-> sub_index, data |-> data, len |-> len])
    /\ IF len = usize(0)
       THEN Return(Ok(<<>>))
       ELSE IF \E k \in 1..3 : len = usize(k)
       THEN Request(ExpeditedWriteMessage(node, index, sub_index, data),
                    "expedited", toggle, 0, <<>>)
       ELSE LET size == u32_try_from(len) IN
            IF size.kind # "Ok" THEN Return(size)
            ELSE Request(SegmentedWriteMessage(node, index, sub_index, size.val),
                         "init", FirstToggle(toggle), 0, <<>>)

\* mutant: there is no arm for empty data, which takes the expedited arm
sdo_write_NoEmptyArm(node, index, sub_index, data, len) ==
    /\ StartCall([op |-> "write", node_id |-> node, index |-> index,
                  sub_index |-> sub_index, data |-> data, len |-> len])
    /\ IF \E k \in 0..4 : len = usize(k)
       THEN Request(ExpeditedWriteMessage(node, index, sub_index, data),
                    "expedited", toggle, 0, <<>>)
       ELSE LET size == u32_try_from(len) IN
            IF size.kind # "Ok" THEN Return(size)
            ELSE Request(SegmentedWriteMessage(node, index, sub_index, size.val),
                         "init", FirstToggle(toggle), 0, <<>>)

\* Conn::sdo_write up to its first send_sdo_acked; data is the content of the
\* slice and len its data.len()
sdo_write(node, index, sub_index, data, len) ==
    /\ StartCall([op |-> "write", node_id |-> node, index |-> index,
                  sub_index |-> sub_index, data |-> data, len |-> len])
    /\ IF len = usize(0)
       THEN Return(Ok(<<>>))
       ELSE IF \E k \in 1..4 : len = usize(k)
       THEN Request(ExpeditedWriteMessage(node, index, sub_index, data),
                    "expedited", toggle, 0, <<>>)
       ELSE LET size == u32_try_from(len) IN
            IF size.kind # "Ok" THEN Return(size)
            ELSE Request(SegmentedWriteMessage(node, index, sub_index, size.val),
                         "init", FirstToggle(toggle), 0, <<>>)

\* Conn::sdo_read up to its first send_sdo_acked
sdo_read(node, index, sub_index) ==
    /\ StartCall([op |-> "read", node_id |-> node, index |-> index,
                  sub_index |-> sub_index, data |-> <<>>, len |-> usize(0)])
    /\ Request(InitiateUploadMessage(node, index, sub_index), "init", toggle, 0, <<>>)

\* send_sdo_acked: Conn::send encodes the request and the transport takes it
send_ok ==
    /\ pc = "send"
    /\ LET f == Sdo_encode(message) IN
       IF f.kind = "Ok"
       THEN /\ sent' = Append(sent, f.val)
            /\ pc' = "wait"
            /\ UNCHANGED <<result, aborted, stage, message, toggle,
                           idx_seg_start, buffer>>
       ELSE /\ AbortWith(f)
            /\ UNCHANGED sent
    /\ UNCHANGED <<call, acked, lastRx, clean, ioFailed>>

\* send_sdo_acked: the transport's write_frame fails
send_fail ==
    /\ pc = "send"
    /\ Sdo_encode(message).kind = "Ok"
    /\ Return(Err("IOError"))
    /\ ioFailed' = TRUE
    /\ UNCHANGED <<call, sent, acked, lastRx, clean>>

\* sdo_write after send_sdo_acked returned Ok: the next loop iteration,
\* [done, result] or [done, message, toggle, idx_seg_start, buffer]
WriteContinue(c, st, tgl, start) ==
    LET next == IF st = "init" THEN 0 ELSE start + 7 IN
    IF st = "expedited" \/ next >= Len(c.data)
    THEN [done |-> TRUE, result |-> Ok(<<>>)]
    ELSE [done |-> FALSE,
          message |-> DownloadSegmentMessage(c.node_id, c.data, next, tgl),
          toggle |-> FlipToggle(tgl),
          idx_seg_start |-> next,
          buffer |-> <<>>]

\* mutant: last is tested before the segment's data is appended
ReadContinue_DropsLastSegment(c, st, tgl, buf, res) ==
    IF st = "init"
    THEN IF res.command.variant = "InitiateUploadTx"
         THEN IF res.command.payload.kind = "Expedited"
              THEN [done |-> TRUE, result |-> Ok(res.command.payload.data)]
              ELSE [done |-> FALSE,
                    message |-> UploadSegmentMessage(c.node_id, FirstToggle(tgl)),
                    toggle |-> FirstToggle(tgl),
                    idx_seg_start |-> 0,
                    buffer |-> <<>>]
         ELSE [done |-> TRUE, result |-> Unreachable]
    ELSE LET isSeg == res.command.variant = "UploadSegmentTx"
             buf2 == IF isSeg THEN buf \o res.command.data ELSE buf
         IN IF isSeg /\ res.command.last
            THEN [done |-> TRUE, result |-> Ok(buf)]
            ELSE [done |-> FALSE,
                  message |-> UploadSegmentMessage(c.node_id, FlipToggle(tgl)),
                  toggle |-> FlipToggle(tgl),
                  idx_seg_start |-> 0,
                  buffer |-> buf2]

\* mutant: the break is outside the test of last
ReadContinue_StopsAfterFirstSegment(c, st, tgl, buf, res) ==
    IF st = "init"
    THEN IF res.command.variant = "InitiateUploadTx"
         THEN IF res.command.payload.kind = "Expedited"
              THEN [done |-> TRUE, result |-> Ok(res.command.payload.data)]
              ELSE [done |-> FALSE,
                    message |-> UploadSegmentMessage(c.node_id, FirstToggle(tgl)),
                    toggle |-> FirstToggle(tgl),
                    idx_seg_start |-> 0,
                    buffer |-> <<>>]
         ELSE [done |-> TRUE, result |-> Unreachable]
    ELSE LET isSeg == res.command.variant = "UploadSegmentTx"
             buf2 == IF isSeg THEN buf \o res.command.data ELSE buf
         IN IF isSeg
            THEN [done |-> TRUE, result |-> Ok(buf2)]
            ELSE [done |-> FALSE,
                  message |-> UploadSegmentMessage(c.node_id, FlipToggle(tgl)),
                  toggle |-> FlipToggle(tgl),
                  idx_seg_start |-> 0,
                  buffer |-> buf2]

\* sdo_read after send_sdo_acked returned Ok(res)
ReadContinue(c, st, tgl, buf, res) ==
    IF st = "init"
    THEN IF res.command.variant = "InitiateUploadTx"
         THEN IF res.command.payload.kind = "Expedited"
              THEN [done |-> TRUE, result |-> Ok(res.command.payload.data)]
              ELSE [done |-> FALSE,
                    message |-> UploadSegmentMessage(c.node_id, FirstToggle(tgl)),
                    toggle |-> FirstToggle(tgl),
                    idx_seg_start |-> 0,
                    buffer |-> <<>>]
         ELSE [done |-> TRUE, result |-> Unreachable]
    ELSE LET isSeg == res.command.variant = "UploadSegmentTx"
             buf2 == IF isSeg THEN buf \o res.command.data ELSE buf
         IN IF isSeg /\ res.command.last
            THEN [done |-> TRUE, result |-> Ok(buf2)]
            ELSE [done |-> FALSE,
                  message |-> UploadSegmentMessage(c.node_id, FlipToggle(tgl)),
                  toggle |-> FlipToggle(tgl),
                  idx_seg_start |-> 0,
                  buffer |-> buf2]

\* the caller of send_sdo_acked goes on with the acknowledgement
Continue(k) ==
    IF k.done
    THEN IF k.result.kind = "Panic" THEN AbortWith(k.result) ELSE Return(k.result)
    ELSE Request(k.message, "seg", k.toggle, k.idx_seg_start, k.buffer)

\* mutant: the match on resp is not guarded by is_sdo_ack's answer
Classify_Unguarded(frame, command, node) ==
    LET resp == Conn_decode(frame) IN
    IF resp.kind = "Panic" THEN [what |-> "panic", panic |-> resp]
    ELSE IF resp.kind = "Err" THEN [what |-> "error", error |-> resp]
    ELSE LET ack == is_sdo_ack(resp.val, command, node) IN
         IF ack.kind = "Err" THEN [what |-> "error", error |-> ack]
         ELSE IF resp.val.type = "Sdo" THEN [what |-> "ack", sdo |-> resp.val.body]
         ELSE [what |-> "panic", panic |-> Unreachable]

\* what one pass of the receive loop of send_sdo_acked does with a frame:
\* "panic", "error" (with the error), "discard" or "ack" (with the Sdo)
Classify(frame, command, node) ==
    LET resp == Conn_decode(frame) IN
    IF resp.kind = "Panic" THEN [what |-> "panic", panic |-> resp]
    ELSE IF resp.kind = "Err" THEN [what |-> "error", error |-> resp]
    ELSE LET ack == is_sdo_ack(resp.val, command, node) IN
         IF ack.kind = "Err" THEN [what |-> "error", error |-> ack]
         ELSE IF ~ack.val THEN [what |-> "discard"]
         ELSE IF resp.val.type = "Sdo" THEN [what |-> "ack", sdo |-> resp.val.body]
         ELSE [what |-> "panic", panic |-> Unreachable]

\* send_sdo_acked: the transport delivers a frame to Conn::recv
recv(frame) ==
    /\ pc = "wait"
    /\ UNCHANGED <<call, sent, ioFailed>>
    /\ LET c == Classify(frame, message.command, call.node_id) IN
       CASE c.what = "panic" ->
              /\ AbortWith(c.panic)
              /\ lastRx' = frame
              /\ UNCHANGED <<acked, clean>>
         [] c.what = "error" ->
              /\ Return(c.error)
              /\ lastRx' = frame
              /\ UNCHANGED <<acked, clean>>
         [] c.what = "discard" ->
              /\ clean' = FALSE
              /\ UNCHANGED <<pc, result, aborted, stage, message, toggle,
                             idx_seg_start, buffer, acked, lastRx>>
         [] c.what = "ack" ->
              LET k == IF call.op = "write"
                       THEN WriteContinue(call, stage, toggle, idx_seg_start)
                       ELSE ReadContinue(call, stage, toggle, buffer, c.sdo)
              IN /\ (k.done \/ call.op = "write" \/ stage = "init"
                            \/ Len(acked) <= MaxReadSegs)
                 /\ acked' = Append(acked, frame)
                 /\ lastRx' = frame
                 /\ UNCHANGED clean
                 /\ Continue(k)

\* mutant: a failed read_frame is retried
recv_fail_Retry ==
    /\ pc = "wait"
    /\ ioFailed' = TRUE
    /\ UNCHANGED <<pc, call, stage, message, toggle, idx_seg_start, buffer,
                   result, sent, acked, lastRx, clean, aborted>>

\* send_sdo_acked: the transport's read_frame fails
recv_fail ==
    /\ pc = "wait"
    /\ Return(Err("IOError"))
    /\ ioFailed' = TRUE
    /\ UNCHANGED <<call, sent, acked, lastRx, clean>>

Next ==
    \/ \E n \in Nodes, o \in Objects, d \in WriteData :
           sdo_write(n, o[1], o[2], d, usize(Len(d)))
    \/ \E n \in Nodes, o \in Objects, l \in HugeLens :
           sdo_write(n, o[1], o[2], DataOf(MaxDataLen), l)
    \/ \E n \in Nodes, o \in Objects : sdo_read(n, o[1], o[2])
    \/ take_result
    \/ send_ok
    \/ send_fail
    \/ \E f \in RxFrames : recv(f)
    \/ recv_fail

Spec == Init /\ [][Next]_vars

----------------------------------------------------------------------------
(* The codec on its own: the application reads one frame with Conn::recv,  *)
(* or builds a message, encodes it and decodes the frame it got.  call is  *)
(* the operation and its arguments, sent the frame encode produced, lastRx *)
(* the frame read, result what the decoder returned.                       *)

MaxPdoLen == 9

\* payloads of 0, 1, 2 and 8 bytes: a SYNC, a Guard, an NMT, an EMCY and an
\* SDO InitiateDownload response can each be read from one of them
Payloads ==
    { <<>>, <<5>>, <<1, 10>>, <<0, 16, 1, 1, 2, 3, 4, 5>>,
      <<96, 0, 16, 1, 0, 0, 0, 0>> }

\* every 11-bit identifier, and some 29-bit ones, with each payload
InboundFrames ==
    {Frame(id, p) : id \in 0..2047, p \in Payloads}
    \cup {[ext |-> TRUE, id |-> id, data |-> p]
             : id \in {0, 128, 1424, 2048, 536870911}, p \in Payloads}

CodecNodes == {1, 16, 127}
CodecObjects == {<<0, 0>>, <<4096, 1>>, <<65535, 255>>}

InitiatePayloads ==
    {Expedited(DataOf(n)) : n \in 1..4}
    \cup {Expedited(<<0>>), Expedited(<<255, 255, 255, 255>>), Segmented(FALSE, 0)}
    \cup {Segmented(TRUE, size) : size \in {0, 10, 16909060, 2147483647}}

SegmentData ==
    {DataOf(n) : n \in 0..7} \cup {<<0>>, <<255, 255, 255, 255, 255, 255, 255>>}

AbortCodes == {AbortCodeTable[i][2] : i \in 1..Len(AbortCodeTable)}

\* the commands of the non-block variants, by direction
ReqCmds ==
    {[variant |-> "InitiateDownloadRx", index |-> o[1], sub_index |-> o[2],
      payload |-> p] : o \in CodecObjects, p \in InitiatePayloads}
    \cup {[variant |-> "DownloadSegmentRx", toggle |-> t, data |-> d, last |-> l]
             : t \in BOOLEAN, d \in SegmentData, l \in BOOLEAN}
    \cup {[variant |-> "InitiateUploadRx", index |-> o[1], sub_index |-> o[2]]
             : o \in CodecObjects}
    \cup {[variant |-> "UploadSegmentRx", toggle |-> t] : t \in BOOLEAN}

ResCmds ==
    {[variant |-> "InitiateDownloadTx", index |-> o[1], sub_index |-> o[2]]
        : o \in CodecObjects}
    \cup {[variant |-> "DownloadSegmentTx", toggle |-> t] : t \in BOOLEAN}
    \cup {[variant |-> "InitiateUploadTx", index |-> o[1], sub_index |-> o[2],
            payload |-> p] : o \in CodecObjects, p \in InitiatePayloads}
    \cup {[variant |-> "UploadSegmentTx", toggle |-> t, data |-> d, last |-> l]
             : t \in BOOLEAN, d \in SegmentData, l \in BOOLEAN}

AbortCmds ==
    {[variant |-> "AbortTransfer", index |-> o[1], sub_index |-> o[2],
      abort_code |-> c] : o \in CodecObjects, c \in AbortCodes}

CodecSdos ==
    {SdoReq(n, c) : n \in CodecNodes, c \in ReqCmds \cup AbortCmds}
    \cup {SdoRes(n, c) : n \in CodecNodes, c \in ResCmds \cup AbortCmds}

\* 8-byte frames at both ends of the two SDO COB-ID ranges, with each command
\* specifier (the top three bits of byte 0) over different low bits, and
\* with bytes 4..8 an abort code of the table (0x05040001), none, or zero
SdoFrames ==
    {Frame(id, <<32 * cs + low, 0, 16, 1>> \o tail)
        : id \in {1409, 1535, 1537, 1663}, cs \in 0..7, low \in {0, 3, 16, 31},
          tail \in {<<0, 0, 0, 0>>, <<1, 0, 4, 5>>, <<1, 0, 0, 0>>}}

\* one or more commands of each of the 13 variants of SdoCmd
SdoCmdSamples ==
    {c \in ReqCmds \cup ResCmds \cup AbortCmds :
        /\ "index" \in DOMAIN c => c.index # 4096
        /\ "payload" \in DOMAIN c =>
               c.payload \in {Expedited(<<0>>), Segmented(TRUE, 10)}
        /\ "data" \in DOMAIN c => c.data \in {<<>>, DataOf(7)}
        /\ "abort_code" \in DOMAIN c => c.abort_code = "GeneralError"}
    \cup {[variant |-> v] : v \in {"BlockUploadTx", "BlockDownloadTx",
                                   "BlockUploadRx", "BlockDownloadRx"}}

\* u16 error codes: all of 0x8000..=0x83FF and both ends of every 0x..00 page
EmergencyCodes ==
    (32768..33791) \cup {256 * k + j : k \in 0..255, j \in {0, 255}}

\* the operation ends with r: a panic kills the thread, anything else returns
Finish(r) == IF r.kind = "Panic" THEN AbortWith(r) ELSE Return(r)

\* Conn::recv: read_frame delivers frame, Conn::decode reads it
Conn_recv(frame) ==
    /\ pc = "idle"
    /\ result = NoResult
    /\ call' = [op |-> "recv"]
    /\ lastRx' = frame
    /\ Finish(Conn_decode(frame))
    /\ UNCHANGED <<sent, acked, clean, ioFailed>>

\* Conn::recv: read_frame fails
Conn_recv_fail ==
    /\ pc = "idle"
    /\ result = NoResult
    /\ call' = [op |-> "recv"]
    /\ ioFailed' = TRUE
    /\ Return(Err("IOError"))
    /\ UNCHANGED <<sent, acked, lastRx, clean>>

\* a message was encoded (a frame, or a panic) and the frame decoded
EncodeDecode(c, encoded, decoded) ==
    /\ pc = "idle"
    /\ result = NoResult
    /\ call' = c
    /\ sent' = (IF encoded.kind = "Ok" THEN <<encoded.val>> ELSE <<>>)
    /\ Finish(decoded)
    /\ UNCHANGED <<acked, lastRx, clean, ioFailed>>

\* Pdo::new, then Pdo::encode and Pdo::decode of the frame
Pdo_roundtrip(node_id, pdo_index, data) ==
    LET pdo == Pdo_new(node_id, pdo_index, data)
        frame == IF pdo.kind = "Ok" THEN Pdo_encode(pdo.val) ELSE pdo
    IN EncodeDecode([op |-> "Pdo", node_id |-> node_id, pdo_index |-> pdo_index,
                     data |-> data],
                    frame,
                    IF frame.kind = "Ok" THEN Pdo_decode(frame.val) ELSE frame)

\* Guard::new, then Guard::encode and Guard::decode of the frame
Guard_roundtrip(node_id, tgl, status) ==
    LET frame == Guard_encode(Guard_new(node_id, tgl, status)) IN
    EncodeDecode([op |-> "Guard", node_id |-> node_id, toggle |-> tgl,
                  status |-> status],
                 frame,
                 IF frame.kind = "Ok" THEN Guard_decode(frame.val) ELSE frame)

\* Sdo::encode, then Sdo::decode of the frame
Sdo_roundtrip(sdo) ==
    LET frame == Sdo_encode(sdo) IN
    EncodeDecode([op |-> "Sdo", sdo |-> sdo],
                 frame,
                 IF frame.kind = "Ok" THEN Sdo_decode(frame.val) ELSE frame)

\* EmergencyErrorCode::encode, then EmergencyErrorCode::decode of the u16
EmergencyErrorCode_roundtrip(c) ==
    /\ pc = "idle"
    /\ result = NoResult
    /\ call' = [op |-> "EmergencyErrorCode", error_code |-> c]
    /\ Finish(EmergencyErrorCode_decode(EmergencyErrorCode_encode(c)))
    /\ UNCHANGED <<sent, acked, lastRx, clean, ioFailed>>

\* EmergencyErrorCode::decode of a u16
EmergencyErrorCode_decode_call(code) ==
    /\ pc = "idle"
    /\ result = NoResult
    /\ call' = [op |-> "EmergencyErrorCode::decode", code |-> code]
    /\ Finish(EmergencyErrorCode_decode(code))
    /\ UNCHANGED <<sent, acked, lastRx, clean, ioFailed>>

\* SdoCmd::is_response_to(a, b)
is_response_to_call(a, b) ==
    /\ pc = "idle"
    /\ result = NoResult
    /\ call' = [op |-> "is_response_to", a |-> a, b |-> b]
    /\ Finish(Ok(is_response_to(a, b)))
    /\ UNCHANGED <<sent, acked, lastRx, clean, ioFailed>>

\* the inputs of a call: the application calls when no call is in progress
WhenIdle(S) == IF pc = "idle" /\ result = NoResult THEN S ELSE {}

CodecNext ==
    \/ \E f \in WhenIdle(InboundFrames \cup SdoFrames) : Conn_recv(f)
    \/ Conn_recv_fail
    \/ \E n \in WhenIdle(CodecNodes), i \in 1..4, k \in 0..MaxPdoLen :
           Pdo_roundtrip(n, i, DataOf(k))
    \/ \E n \in WhenIdle(CodecNodes), t \in BOOLEAN, st \in GuardStatuses :
           Guard_roundtrip(n, t, st)
    \/ \E m \in WhenIdle(CodecSdos) : Sdo_roundtrip(m)
    \/ \E c \in WhenIdle(EmergencyErrorCodes) : EmergencyErrorCode_roundtrip(c)
    \/ \E code \in WhenIdle(EmergencyCodes) : EmergencyErrorCode_decode_call(code)
    \/ \E a \in WhenIdle(SdoCmdSamples), b \in SdoCmdSamples :
           is_response_to_call(a, b)
    \/ take_result

CodecSpec == Init /\ [][CodecNext]_vars

----------------------------------------------------------------------------
(* Reading frames as they are on the wire (CiA 301 layout of the SDO       *)
(* command byte), independently of the codec above.                        *)

WireCs(f) == f.data[1] \div 32
WireToggle(f) == Bit(f.data[1], 4) = 1
WireLast(f) == Bit(f.data[1], 0) = 1
WireSegData(f) == SubSeq(f.data, 2, 8 - ((f.data[1] \div 2) % 8))
WireIndex(f) == f.data[2] + 256 * f.data[3]
WireSub(f) == f.data[4]
WireU32(f) == f.data[5] + 256 * f.data[6] + 65536 * f.data[7] + 16777216 * f.data[8]
WireExpedited(f) == Bit(f.data[1], 1) = 1
WireExpeditedData(f) ==
    SubSeq(f.data, 5, IF Bit(f.data[1], 0) = 1 THEN 8 - ((f.data[1] \div 4) % 4) ELSE 8)

\* an 8-byte SDO request to node / response from node with command specifier cs
IsRequest(f, node, cs) ==
    ~f.ext /\ f.id = 1536 + node /\ Len(f.data) = 8 /\ WireCs(f) = cs
IsResponse(f, node, cs) ==
    ~f.ext /\ f.id = 1408 + node /\ Len(f.data) = 8 /\ WireCs(f) = cs

\* an abort frame about node, in either direction, with a code of the table
IsAbortOf(f, node) ==
    /\ ~f.ext /\ f.id \in {1408 + node, 1536 + node}
    /\ Len(f.data) = 8 /\ WireCs(f) = 4
    /\ \E i \in 1..Len(AbortCodeTable) : AbortCodeTable[i][1] = WireU32(f)

WireAbortCode(f) ==
    AbortCodeTable[CHOOSE i \in 1..Len(AbortCodeTable) :
                       AbortCodeTable[i][1] = WireU32(f)][2]

\* the concatenation of the segment payloads of frames[from..]
RECURSIVE SegConcat(_, _)
SegConcat(frames, from) ==
    IF from > Len(frames) THEN <<>>
    ELSE WireSegData(frames[from]) \o SegConcat(frames, from + 1)

Returned == pc = "idle" /\ result # NoResult
ReturnedOk == Returned /\ result.kind = "Ok"

\* every frame the call received was accepted as an acknowledgement and the
\* transport never failed: the server answered each request with its counterpart
Served ==
    /\ clean /\ ~ioFailed
    /\ lastRx = (IF acked = <<>> THEN NoFrame ELSE acked[Len(acked)])

----------------------------------------------------------------------------
(* The claims *)

\* C1: a successful sdo_write of n > 4 bytes has sent one InitiateDownload
\* request with Segmented(size = n) and then exactly ceil(n/7) DownloadSegment
\* requests, the k-th carrying data[7k .. min(7k+7, n)) with last set exactly
\* when 7k+7 >= n, so the payloads concatenate to data.
C1_SegmentedWriteFrames ==
    (ReturnedOk /\ call.op = "write" /\ Len(call.data) > 4) =>
        LET n == Len(call.data)
            nseg == (n + 6) \div 7
        IN /\ Len(sent) = 1 + nseg
           /\ IsRequest(sent[1], call.node_id, 1)
           /\ sent[1].data[1] = 33
           /\ WireIndex(sent[1]) = call.index /\ WireSub(sent[1]) = call.sub_index
           /\ WireU32(sent[1]) = n
           /\ \A k \in 0..(nseg - 1) :
                /\ IsRequest(sent[k + 2], call.node_id, 0)
                /\ WireSegData(sent[k + 2]) = SubSeq(call.data, 7 * k + 1, Min(7 * k + 7, n))
                /\ WireLast(sent[k + 2]) = (7 * k + 7 >= n)
           /\ SegConcat(sent, 2) = call.data

C1_Witness ==
    ReturnedOk /\ call.op = "write" /\ Len(call.data) >= 15 /\ Len(sent) >= 4

\* C2: in every sdo_write, at every moment, the k-th DownloadSegment request
\* sent so far has toggle FALSE for even k and TRUE for odd k, also in a
\* transfer that follows other transfers on the connection.
C2_WriteToggleAlternates ==
    call.op = "write" =>
        \A j \in 2..Len(sent) : WireToggle(sent[j]) = ((j - 2) % 2 = 1)

C2_Witness ==
    /\ aborted /\ call.op = "write" /\ Len(sent) >= 4
    /\ ~WireToggle(sent[2]) /\ WireToggle(sent[3]) /\ ~WireToggle(sent[4])

\* C3: a segmented sdo_read that returns Ok returns the concatenation of the
\* data of the accepted UploadSegment responses, the last accepted one is the
\* first with last set, and no request was sent after it.
C3_SegmentedReadResult ==
    (ReturnedOk /\ call.op = "read" /\ ~WireExpedited(acked[1])) =>
        /\ Len(acked) >= 2
        /\ result.val = SegConcat(acked, 2)
        /\ \A j \in 2..Len(acked) :
              /\ IsResponse(acked[j], call.node_id, 0)
              /\ WireLast(acked[j]) = (j = Len(acked))
        /\ Len(sent) = Len(acked)

C3_Witness ==
    /\ ReturnedOk /\ call.op = "read" /\ Len(acked) = 3
    /\ result.val = <<10, 9, 8, 7, 6, 5, 4, 3, 2, 1>>

\* C4: when the receive loop gets an AbortTransfer frame about the target
\* node, the call returns SdoAbortTransfer with the abort code of that frame
\* and that step sends nothing.
C4_AbortSurfaces ==
    [][(pc = "wait" /\ IsAbortOf(lastRx', call.node_id)) =>
          /\ pc' = "idle"
          /\ result' = ErrAbort(WireAbortCode(lastRx'))
          /\ sent' = sent]_vars

C4_Witness ==
    /\ Returned /\ result = ErrAbort("NoDataAvailable")
    /\ IsAbortOf(lastRx, call.node_id) /\ Len(acked) >= 2

\* C5 (as claimed): the receive loop ends only on an SDO of the target node
\* that is an abort or the counterpart of the request; every other frame is
\* discarded and leaves the call waiting.
C5_OnlyTargetSdoEndsWait ==
    lastRx # NoFrame =>
        \/ IsAbortOf(lastRx, call.node_id)
        \/ /\ acked # <<>>
           /\ lastRx = acked[Len(acked)]
           /\ ~lastRx.ext /\ lastRx.id = 1408 + call.node_id

\* C6: sdo_write of 1..4 bytes sends one frame only, the InitiateDownload
\* request with Expedited(data) for the given index and sub-index, and returns
\* Ok exactly when an InitiateDownload response of the target was accepted.
C6_ExpeditedWrite ==
    (call.op = "write" /\ Len(call.data) \in 1..4) =>
        LET n == Len(call.data) IN
        /\ Len(sent) <= 1
        /\ Len(sent) = 1 =>
              /\ IsRequest(sent[1], call.node_id, 1)
              /\ sent[1].data[1] = 35 + 4 * (4 - n)
              /\ WireIndex(sent[1]) = call.index /\ WireSub(sent[1]) = call.sub_index
              /\ SubSeq(sent[1].data, 5, 8) = call.data \o Zeros(4 - n)
        /\ Len(acked) <= 1
        /\ Len(acked) = 1 => ReturnedOk /\ IsResponse(acked[1], call.node_id, 3)
        /\ ReturnedOk => Len(acked) = 1 /\ Len(sent) = 1

C6_Witness ==
    ReturnedOk /\ call.op = "write" /\ Len(call.data) = 3 /\ Len(sent) = 1

\* C7: sdo_write of no bytes has returned Ok at once: nothing was sent and
\* no frame was taken from the transport.
C7_EmptyWrite ==
    (call.op = "write" /\ Len(call.data) = 0) =>
        /\ ReturnedOk
        /\ sent = <<>> /\ acked = <<>> /\ lastRx = NoFrame /\ clean /\ ~ioFailed

C7_Witness ==
    ReturnedOk /\ call.op = "write" /\ call.data = <<>> /\ sent = <<>>

\* C8: once sdo_read has accepted an InitiateUpload response with an
\* expedited payload it has returned exactly that payload, having sent the
\* InitiateUpload request only.
C8_ExpeditedRead ==
    (call.op = "read" /\ acked # <<>> /\ WireExpedited(acked[1])) =>
        /\ ReturnedOk
        /\ result.val = WireExpeditedData(acked[1])
        /\ Len(sent) = 1 /\ Len(acked) = 1

C8_Witness ==
    ReturnedOk /\ call.op = "read" /\ result.val = <<7>> /\ Len(sent) = 1

\* C9: a failed write_frame or read_frame ends the call with IOError in that
\* very step, which sends nothing; the call stays ended, and the Result
\* carries no data.
C9_TransportErrorEndsCall ==
    /\ [](ioFailed => (pc = "idle" /\ result = Err("IOError")
                       /\ "val" \notin DOMAIN result))
    /\ [][(ioFailed' /\ ~ioFailed) => (sent' = sent /\ acked' = acked)]_vars

C9_Witness ==
    /\ ioFailed /\ call.op = "read" /\ Len(acked) >= 2
    /\ result = Err("IOError")

\* the requests a call makes on a fresh connection when each is answered by
\* its counterpart; nacks is the number of answers a read got
FreshRequests(c, nacks) ==
    IF c.op = "write"
    THEN IF Len(c.data) = 0 \/ c.len # usize(Len(c.data)) THEN <<>>
         ELSE IF Len(c.data) <= 4
         THEN <<ExpeditedWriteMessage(c.node_id, c.index, c.sub_index, c.data)>>
         ELSE <<SegmentedWriteMessage(c.node_id, c.index, c.sub_index, Len(c.data))>>
              \o [k \in 1..((Len(c.data) + 6) \div 7) |->
                    DownloadSegmentMessage(c.node_id, c.data, 7 * (k - 1), k % 2 = 0)]
    ELSE <<InitiateUploadMessage(c.node_id, c.index, c.sub_index)>>
         \o [k \in 1..(nacks - 1) |-> UploadSegmentMessage(c.node_id, k % 2 = 0)]

\* C10: a call made after an earlier call ended in SdoAbortTransfer starts
\* with its initiate request and with toggle FALSE, and when served it returns
\* Ok having sent the frames of a fresh connection.
C10_UsableAfterAbort ==
    (aborted /\ call.op # "none") =>
        /\ Len(sent) >= 1 =>
              /\ IsRequest(sent[1], call.node_id, IF call.op = "write" THEN 1 ELSE 2)
              /\ WireIndex(sent[1]) = call.index
        /\ Len(sent) >= 2 => ~WireToggle(sent[2])
        /\ (Returned /\ Served) =>
              /\ IF call.len = usize(Len(call.data))
                 THEN result.kind = "Ok"
                 ELSE result = Err("OverflowError")
              /\ sent = [k \in 1..Len(sent) |->
                            Sdo_encode(FreshRequests(call, Len(acked))[k]).val]
              /\ Len(sent) = Len(FreshRequests(call, Len(acked)))

C10_Witness ==
    /\ aborted /\ Returned /\ Served /\ result.kind = "Ok"
    /\ call.op = "write" /\ Len(call.data) >= 8

----------------------------------------------------------------------------
(* The claims about the codec, under CodecSpec *)

\* the variant the COB-ID table lists for a standard identifier
ListedVariant(id) ==
    CASE id = 0 -> "Nmt"
      [] id = 128 -> "Sync"
      [] id \in 129..255 -> "Emergency"
      [] id \in 384..1407 -> "Pdo"
      [] id \in 1408..1663 -> "Sdo"
      [] id \in 1792..1919 -> "Guard"
      [] OTHER -> "none"

\* a payload that is well formed for the variant
SamplePayload(type) ==
    CASE type = "Nmt" -> <<1, 10>>
      [] type = "Sync" -> <<>>
      [] type = "Emergency" -> <<0, 16, 1, 1, 2, 3, 4, 5>>
      [] type = "Pdo" -> <<5>>
      [] type = "Sdo" -> <<96, 0, 16, 1, 0, 0, 0, 0>>
      [] type = "Guard" -> <<5>>

\* Conn::recv was called and read_frame delivered lastRx
Received == call.op = "recv" /\ lastRx # NoFrame

\* C11: a standard-ID frame whose COB-ID lies in a listed range (0x000 Nmt,
\* 0x080 Sync, 0x081..0x0FF Emergency, 0x180..0x57F Pdo, 0x580..0x67F Sdo,
\* 0x700..0x77F Guard) is never decoded as another variant, and with a
\* payload well formed for the listed variant it is decoded as that variant.
C11_ListedRangesClassified ==
    (Received /\ ~lastRx.ext /\ ListedVariant(lastRx.id) # "none") =>
        /\ result.kind = "Ok" => result.val.type = ListedVariant(lastRx.id)
        /\ lastRx.data = SamplePayload(ListedVariant(lastRx.id)) =>
               result.kind = "Ok"

\* the frame with the last COB-ID of the PDO range (0x57F) was read as a Pdo
C11_Witness ==
    /\ Received
    /\ lastRx = Frame(1407, <<5>>)
    /\ result.kind = "Ok"
    /\ result.val.type = "Pdo"

UnlistedCobId(id) ==
    id \in (1..127) \cup (256..383) \cup (1664..1791) \cup (1920..2047)

\* C12: for a standard-ID frame whose COB-ID lies outside all listed ranges
\* Conn::recv returns the error UnknownFrameRWType to its caller (which can
\* then read the next frame).
C12_UnknownCobIdReturnsError ==
    (Received /\ ~lastRx.ext /\ UnlistedCobId(lastRx.id)) =>
        (pc = "idle" /\ result = Err("UnknownFrameRWType"))

\* C13: for a frame with an extended (29-bit) identifier Conn::recv returns
\* the error CanVersion, whatever the identifier and the payload.
C13_ExtendedIdReturnsCanVersion ==
    (Received /\ lastRx.ext) => (pc = "idle" /\ result = Err("CanVersion"))

\* C14: decoding the frame encoded from Pdo::new(node_id, pdo_index, data),
\* node_id in 1..=127, pdo_index in 1..=4, 1..=8 data bytes, yields a Pdo with
\* the same node_id, pdo_index, direction (Req) and data.
C14_PdoRoundTrip ==
    (/\ call.op = "Pdo"
     /\ call.node_id \in 1..127
     /\ call.pdo_index \in 1..4
     /\ Len(call.data) \in 1..8) =>
        result = Ok([node_id |-> call.node_id, pdo_index |-> call.pdo_index,
                     reqres |-> "Req", data |-> call.data])

\* C15: decoding the frame encoded from a Guard of node n in 1..=127 (COB-ID
\* 0x700 + n) yields a Guard with node_id n and the same toggle and status.
C15_GuardRoundTrip ==
    (call.op = "Guard" /\ call.node_id \in 1..127) =>
        /\ sent = <<Frame(1792 + call.node_id,
                          <<call.status + 128 * BoolU8(call.toggle)>>)>>
        /\ result = Ok([node_id |-> call.node_id, toggle |-> call.toggle,
                        status |-> call.status])

\* C16: for each of the 35 EmergencyErrorCode symbols c,
\* EmergencyErrorCode::decode(EmergencyErrorCode::encode(c)) is Ok(c).
C16_EmergencyErrorCodeRoundTrip ==
    /\ Cardinality(EmergencyErrorCodes) = 35
    /\ call.op = "EmergencyErrorCode" => result = Ok(call.error_code)

\* C17: for every Sdo of a non-block variant with valid fields, in the
\* direction its variant belongs to, Sdo::decode of the frame Sdo::encode
\* produced returns the same node id, direction, variant and field values.
C17_SdoRoundTrip ==
    call.op = "Sdo" =>
        /\ pc = "idle"
        /\ result.kind = "Ok"
        /\ result.val.node_id = call.sdo.node_id
        /\ result.val.reqres = call.sdo.reqres
        /\ result.val.command = call.sdo.command

\* a response carrying one expedited byte came back from the round trip
C17_Witness ==
    /\ call.op = "Sdo"
    /\ call.sdo.reqres = "Res"
    /\ call.sdo.command.variant = "InitiateUploadTx"
    /\ call.sdo.command.payload = Expedited(<<0>>)
    /\ call.sdo.node_id = 127
    /\ result.kind = "Ok"

\* C19: every Pdo the library produces, by Pdo::new or by decoding a frame in
\* the PDO COB-ID range, has 1..=8 data bytes, and Pdo::new returns BadMessage
\* for data of 0 bytes and of more than 8 bytes.
C19_PdoDataLength ==
    /\ (Received /\ result.kind = "Ok" /\ result.val.type = "Pdo") =>
           Len(result.val.body.data) \in 1..8
    /\ (call.op = "Pdo" /\ result.kind = "Ok") => Len(result.val.data) \in 1..8
    /\ (call.op = "Pdo" /\ Len(call.data) \notin 1..8) => result = Err("BadMessage")

----------------------------------------------------------------------------
(* The claims about the frames of the SDO engine, under Spec *)

\* the first byte (1-based) of an SDO request that carries no field
WireUnusedFrom(f) ==
    LET b == f.data[1] IN
    CASE WireCs(f) = 0 -> 9 - ((b \div 2) % 8)
      [] WireCs(f) = 1 ->
            IF WireExpedited(f)
            THEN (IF Bit(b, 0) = 1 THEN 9 - ((b \div 4) % 4) ELSE 9)
            ELSE (IF Bit(b, 0) = 1 THEN 9 ELSE 5)
      [] WireCs(f) = 2 -> 5
      [] WireCs(f) = 3 -> 2
      [] OTHER -> 9

\* C18: every frame sdo_write and sdo_read transmit towards a node with
\* node_id in 1..=127 has the standard COB-ID 0x600 + node_id and a payload of
\* exactly 8 bytes in which every byte that carries no field is zero.
C18_RequestFrames ==
    (call.op \in {"write", "read"} /\ call.node_id \in 1..127) =>
        \A i \in 1..Len(sent) :
            LET f == sent[i] IN
            /\ ~f.ext
            /\ f.id = 1536 + call.node_id
            /\ Len(f.data) = 8
            /\ \A k \in WireUnusedFrom(f)..8 : f.data[k] = 0

\* a 10-byte write to node 127 has sent its last segment, which carries 3
\* data bytes and 4 unused ones
C18_Witness ==
    /\ call.op = "write"
    /\ call.node_id = 127
    /\ Len(call.data) = 10
    /\ Len(sent) = 3
    /\ WireUnusedFrom(sent[3]) = 5

\* C20: sdo_write with data longer than u32::MAX bytes returns OverflowError,
\* and no frame was sent when it returns.
C20_OverflowBeforeSend ==
    (call.op = "write" /\ (call.len[3] # 0 \/ call.len[4] # 0)) =>
        /\ pc = "idle"
        /\ result = Err("OverflowError")
        /\ sent = <<>>
        /\ acked = <<>>

\* a write of 2^32 bytes (u32::MAX + 1) has returned
C20_Witness ==
    /\ call.op = "write"
    /\ call.len = <<0, 0, 1, 0>>
    /\ Returned
    /\ result = Err("OverflowError")

(* The acknowledgement matching and the read loop, under Spec; the command
   tables and the emergency codes, under CodecSpec *)

\* the six request/response pairs of is_response_to
ResponsePairs ==
    { <<"InitiateUploadRx", "InitiateUploadTx">>,
      <<"InitiateDownloadRx", "InitiateDownloadTx">>,
      <<"UploadSegmentRx", "UploadSegmentTx">>,
      <<"DownloadSegmentRx", "DownloadSegmentTx">>,
      <<"BlockUploadRx", "BlockUploadTx">>,
      <<"BlockDownloadRx", "BlockDownloadTx">> }

\* C21: is_response_to(a, b) is true exactly for the six pairs (request a,
\* response b) InitiateUpload, InitiateDownload, UploadSegment,
\* DownloadSegment, BlockUpload and BlockDownload, Rx then Tx, and false for
\* every other pair of commands, whatever the fields of a and b.
C21_IsResponseToSixPairs ==
    call.op = "is_response_to" =>
        result = Ok(<<call.a.variant, call.b.variant>> \in ResponsePairs)

\* a BlockDownload response was recognised as the counterpart of its request
C21_Witness ==
    /\ call.op = "is_response_to"
    /\ call.a.variant = "BlockDownloadRx"
    /\ call.b.variant = "BlockDownloadTx"
    /\ result = Ok(TRUE)

\* the command specifier of the response that answers a request with specifier cs
CounterpartCs(cs) ==
    CASE cs = 0 -> 1      \* DownloadSegment
      [] cs = 1 -> 3      \* InitiateDownload
      [] cs = 2 -> 2      \* InitiateUpload
      [] cs = 3 -> 0      \* UploadSegment

\* frame f comes from node's SDO server and carries the counterpart of request q
IsCounterpart(f, q, node) ==
    /\ ~f.ext
    /\ f.id = 1408 + node
    /\ Len(f.data) >= 1
    /\ WireCs(f) = CounterpartCs(WireCs(q))

\* C22: an SDO call is a strict lockstep: at most one request is
\* unacknowledged at any time, a request is sent only when every earlier one
\* has been acknowledged, and the only thing that acknowledges a request is
\* a frame from the target node carrying the counterpart response of that
\* request.
C22_Lockstep ==
    /\ [](Len(sent) - Len(acked) \in {0, 1})
    /\ [](pc = "wait" => Len(sent) = Len(acked) + 1)
    /\ [][(sent' # sent /\ sent' # <<>>) =>
              /\ Len(acked) = Len(sent)
              /\ Len(sent') = Len(sent) + 1
              /\ SubSeq(sent', 1, Len(sent)) = sent]_vars
    /\ [][(acked' # acked /\ acked' # <<>>) =>
              /\ pc = "wait"
              /\ Len(acked') = Len(acked) + 1
              /\ SubSeq(acked', 1, Len(acked)) = acked
              /\ IsCounterpart(acked'[Len(acked')], sent[Len(sent)], call.node_id)]_vars

\* the third request of a write is out, two were acknowledged, and frames
\* that were no acknowledgement have been discarded on the way
C22_Witness ==
    /\ call.op = "write"
    /\ pc = "wait"
    /\ Len(sent) = 3
    /\ Len(acked) = 2
    /\ ~clean

\* C23: in a segmented read the k-th UploadSegment request (k from 0) carries
\* toggle = (k odd): the first one false, then alternating strictly; and the
\* toggle changes only in a step that accepts a response.
C23_ReadToggleAlternates ==
    /\ [](call.op = "read" =>
            \A i \in 2..Len(sent) :
                /\ IsRequest(sent[i], call.node_id, 3)
                /\ WireToggle(sent[i]) = ((i - 2) % 2 = 1))
    /\ [][(call.op = "read" /\ call' = call /\ toggle' # toggle) =>
              Len(acked') = Len(acked) + 1]_vars

\* three UploadSegment requests went out, the middle one with the toggle set
C23_Witness ==
    /\ call.op = "read"
    /\ Len(sent) = 4
    /\ ~WireToggle(sent[2])
    /\ WireToggle(sent[3])
    /\ ~WireToggle(sent[4])

\* the number of 7-byte segments of n bytes
SegmentsOf(n) == (n + 6) \div 7

\* frame f is SDO traffic of the node the call talks to
TargetSdoTraffic(f) == f.id \in {1408 + call.node_id, 1536 + call.node_id}

\* C24: a segmented write (more than 4 bytes) whose transport never fails
\* and whose server answers each request with its counterpart response,
\* other frames arriving in between, ends with Ok after exactly
\* 1 + ceil(n / 7) acknowledged requests.
C24_SegmentedWriteCompletes ==
    ( /\ call.op = "write"
      /\ Len(call.data) > 4
      /\ call.len = usize(Len(call.data))
      /\ ~ioFailed
      /\ (pc = "panic" \/ Returned)
      /\ \/ lastRx = NoFrame
         \/ (acked # <<>> /\ lastRx = acked[Len(acked)])
         \/ lastRx.ext
         \/ ~TargetSdoTraffic(lastRx) )
    => /\ ReturnedOk
       /\ Len(sent) = 1 + SegmentsOf(Len(call.data))
       /\ Len(acked) = Len(sent)

\* the exact codes of the 0x81xx and 0x82xx pages and their symbols
ExactEmergencyCodeTable ==
    << <<33040, "CommunicationCanOverrun">>,
       <<33056, "CommunicationErrorPassiveMode">>,
       <<33072, "CommunicationLifeGuardError">>,
       <<33088, "CommunicationRecoveredBusOff">>,
       <<33104, "CommunicationCanIdCollision">>,
       <<33296, "ProtocolErrorPdoLength">>,
       <<33312, "ProtocolErrorPdoLengthExceeded">>,
       <<33328, "ProtocolErrorDamMpdo">>,
       <<33344, "ProtocolErrorUnexpectedSyncLength">>,
       <<33360, "ProtocolErrorRpdoTimeout">> >>

ExactEmergencyCodes ==
    { ExactEmergencyCodeTable[i][1] : i \in 1..Len(ExactEmergencyCodeTable) }

\* the high bytes of the ranges of the table
EmergencyPages ==
    {0, 16, 32, 33, 34, 35, 48, 49, 50, 51, 64, 65, 66, 80, 96, 97, 98, 99,
     112, 128, 129, 130, 144, 240, 255}

\* C25: EmergencyErrorCode::decode matches the exact codes first; every other
\* code 0x81xx decodes to Communication and every other code 0x82xx to
\* ProtocolError; a code outside the table gives ParseError.
C25_EmergencyMaskedRanges ==
    call.op = "EmergencyErrorCode::decode" =>
        LET code == call.code IN
        /\ code \in ExactEmergencyCodes =>
               \E i \in 1..Len(ExactEmergencyCodeTable) :
                   /\ ExactEmergencyCodeTable[i][1] = code
                   /\ result = Ok(ExactEmergencyCodeTable[i][2])
        /\ (code \in 33024..33279 /\ code \notin ExactEmergencyCodes) =>
               result = Ok("Communication")
        /\ (code \in 33280..33535 /\ code \notin ExactEmergencyCodes) =>
               result = Ok("ProtocolError")
        /\ (code \div 256) \notin EmergencyPages =>
               result.kind = "Err" /\ result.err = "ParseError"

\* the variant the command specifier selects, by direction
SpecifierVariant(reqres, cs) ==
    IF reqres = "Req"
    THEN CASE cs = 0 -> "DownloadSegmentRx"
           [] cs = 1 -> "InitiateDownloadRx"
           [] cs = 2 -> "InitiateUploadRx"
           [] cs = 3 -> "UploadSegmentRx"
           [] cs = 4 -> "AbortTransfer"
    ELSE CASE cs = 0 -> "UploadSegmentTx"
           [] cs = 1 -> "DownloadSegmentTx"
           [] cs = 2 -> "InitiateUploadTx"
           [] cs = 3 -> "InitiateDownloadTx"
           [] cs = 4 -> "AbortTransfer"

\* C26: the upper three bits of byte 0 of an 8-byte SDO frame select the
\* command by direction: 0..3 the four transfer commands of the request
\* table (COB-ID 0x600 + node) or of the response table (0x580 + node),
\* 4 AbortTransfer in both directions (ParseError when the abort code is not
\* in the table), 5 and 6 the error NotYetImplemented, 7 ParseError.
C26_CommandSpecifier ==
    (Received /\ ~lastRx.ext /\ lastRx.id \in 1408..1663 /\ Len(lastRx.data) = 8) =>
        LET cs == WireCs(lastRx)
            reqres == IF lastRx.id \in 1408..1535 THEN "Res" ELSE "Req"
            known == \E i \in 1..Len(AbortCodeTable) :
                         AbortCodeTable[i][1] = WireU32(lastRx)
        IN CASE cs \in 0..3 \/ (cs = 4 /\ known) ->
                  /\ pc = "idle"
                  /\ result.kind = "Ok"
                  /\ result.val.type = "Sdo"
                  /\ result.val.body.reqres = reqres
                  /\ result.val.body.command.variant = SpecifierVariant(reqres, cs)
                  /\ cs = 4 => result.val.body.command.abort_code = WireAbortCode(lastRx)
             [] cs = 4 /\ ~known ->
                  pc = "idle" /\ result.kind = "Err" /\ result.err = "ParseError"
             [] cs \in {5, 6} ->
                  pc = "idle" /\ result.kind = "Err" /\ result.err = "NotYetImplemented"
             [] cs = 7 ->
                  pc = "idle" /\ result.kind = "Err" /\ result.err = "ParseError"

\* specifier 1 in a frame from a server was read as a DownloadSegment response
C26_Witness ==
    /\ Received
    /\ lastRx.id = 1409
    /\ Len(lastRx.data) = 8
    /\ WireCs(lastRx) = 1
    /\ result.kind = "Ok"
    /\ result.val.body.command.variant = "DownloadSegmentTx"

\* C27: a response is accepted as the acknowledgement by node id and
\* command variant alone: every well-formed counterpart response from the
\* target node would be accepted, whatever index, sub-index or toggle it
\* carries, and the frame that ends the wait with success is such a response.
C27_AckByNodeAndVariant ==
    /\ [](pc = "wait" =>
            \A f \in RxFrames :
                (Len(f.data) = 8 /\ IsCounterpart(f, sent[Len(sent)], call.node_id))
                    => Classify(f, message.command, call.node_id).what = "ack")
    /\ [][(acked' # acked /\ acked' # <<>>) =>
              /\ lastRx' = acked'[Len(acked')]
              /\ lastRx'.id = 1408 + call.node_id
              /\ WireCs(lastRx') = CounterpartCs(WireCs(sent[Len(sent)]))]_vars

\* a write ended with Ok although the InitiateDownload response named another
\* object and the DownloadSegment response carried the opposite toggle
C27_Witness ==
    /\ call.op = "write"
    /\ ReturnedOk
    /\ Len(acked) = 2
    /\ WireIndex(acked[1]) # call.index
    /\ WireToggle(acked[2]) # WireToggle(sent[2])

\* C28: Conn::recv never panics on a frame with a standard identifier:
\* whatever the COB-ID and the payload, it returns a message or an error.
C28_RecvNeverPanics ==
    (Received /\ ~lastRx.ext) =>
        (pc = "idle" /\ result.kind \in {"Ok", "Err"})

\* C29: the unreachable!() arms of sdo_read are never reached: the response
\* accepted for the InitiateUpload request is an InitiateUpload response and
\* the response accepted for an UploadSegment request is an UploadSegment
\* response.
C29_ReadArmsUnreachable ==
    /\ result # Unreachable
    /\ call.op = "read" =>
           \A k \in 1..Len(acked) :
               IsResponse(acked[k], call.node_id, IF k = 1 THEN 2 ELSE 0)

\* a read accepted the InitiateUpload response and two segments, with
\* discarded frames in between
C29_Witness ==
    /\ call.op = "read"
    /\ ReturnedOk
    /\ Len(acked) = 3
    /\ ~clean

\* C30: a segmented read ends exactly at the first accepted segment with the
\* last flag; the size the InitiateUpload response announced takes no part:
\* the loop goes on past it and returns short of it.
C30_ReadEndsOnLastFlag ==
    (call.op = "read" /\ Len(acked) >= 1 /\ ~WireExpedited(acked[1])) =>
        /\ \A k \in 2..(Len(acked) - 1) : ~WireLast(acked[k])
        /\ ReturnedOk <=> (Len(acked) >= 2 /\ WireLast(acked[Len(acked)]))
        /\ ReturnedOk => result.val = SegConcat(acked, 2)
        /\ (Returned /\ ~ReturnedOk) => result.err \in {"SdoAbortTransfer", "IOError", "ParseError", "NotYetImplemented"}

\* the server announced 10 bytes and the read returned 17
C30_Witness ==
    /\ call.op = "read"
    /\ ReturnedOk
    /\ ~WireExpedited(acked[1])
    /\ Bit(acked[1].data[1], 0) = 1
    /\ WireU32(acked[1]) = 10
    /\ Len(result.val) = 17
====
